---- MODULE Spec2Model ----
(***************************************************************************)
(* A model of tomorin, a Telegram user bot: the ingestion loop             *)
(* (UserBot::run), the command router (TomorinClient::update) and the      *)
(* handlers it dispatches to, in particular the shell-command handler with *)
(* its select loop over two subprocess streams and a render timer.         *)
(*                                                                         *)
(* Text is a sequence of characters; a character is a one-element TLA+     *)
(* string, and a character outside ASCII is written as its code point      *)
(* ("U+FF0C" is the full-width comma).                                     *)
(***************************************************************************)
EXTENDS Integers, Sequences, FiniteSets, TLC

\* ------------------------------------------------------------------ bounds

\* Longest message text the router specification enumerates.
MaxTextLen == 2
\* Most updates the transport delivers in the ingestion-loop specification.
MaxUpdates == 2
\* Longest standard output (in lines) of a subprocess in the render specification.
MaxOut == 32
\* Most pieces a snippet is put together from in the evaluation specification.
MaxPieces == 3
\* How far (in characters) the outputs of the evaluation specification go past the
\* column budget of the formatter, and stay short of it.
MaxOver == 2
\* Most lines the standard error of a failed evaluation has in the evaluation
\* specification.
MaxErrLines == 3

\* ------------------------------------------------------------------ text

LF == "\n"

\* char::is_whitespace, on the characters the model uses.
WhiteSpace == {" ", LF, "\t", "\r"}

\* str::starts_with
StartsWith(text, prefix) ==
    /\ Len(prefix) <= Len(text)
    /\ SubSeq(text, 1, Len(prefix)) = prefix

\* str::ends_with
EndsWith(text, suffix) ==
    /\ Len(suffix) <= Len(text)
    /\ SubSeq(text, Len(text) - Len(suffix) + 1, Len(text)) = suffix

Drop(text, n) == SubSeq(text, n + 1, Len(text))

\* str::trim_start_matches(prefix): removes the prefix as often as it repeats.
RECURSIVE TrimStartMatches(_, _)
TrimStartMatches(text, prefix) ==
    IF prefix # <<>> /\ StartsWith(text, prefix)
    THEN TrimStartMatches(Drop(text, Len(prefix)), prefix)
    ELSE text

RECURSIVE TrimStart(_)
TrimStart(text) ==
    IF text # <<>> /\ Head(text) \in WhiteSpace THEN TrimStart(Tail(text)) ELSE text

RECURSIVE TrimEnd(_)
TrimEnd(text) ==
    IF text # <<>> /\ text[Len(text)] \in WhiteSpace
    THEN TrimEnd(SubSeq(text, 1, Len(text) - 1))
    ELSE text

\* str::trim
Trim(text) == TrimEnd(TrimStart(text))

\* str::split_whitespace: the maximal runs of non-whitespace characters.
RECURSIVE SplitWhitespaceFrom(_, _)
SplitWhitespaceFrom(text, word) ==
    IF text = <<>> THEN (IF word = <<>> THEN <<>> ELSE <<word>>)
    ELSE IF Head(text) \in WhiteSpace
         THEN (IF word = <<>> THEN <<>> ELSE <<word>>) \o SplitWhitespaceFrom(Tail(text), <<>>)
         ELSE SplitWhitespaceFrom(Tail(text), Append(word, Head(text)))

\* str::split(' ') in the place of split_whitespace: a text without a word still
\* yields a first, empty, token (a mutant).
SplitOnBlank(text) ==
    IF SplitWhitespaceFrom(text, <<>>) = <<>> THEN << <<>> >> ELSE SplitWhitespaceFrom(text, <<>>)

SplitWhitespace(text) == SplitWhitespaceFrom(text, <<>>)

\* str::split_inclusive('\n'): the pieces keep their line feed; no empty last piece.
RECURSIVE SplitInclusiveFrom(_, _)
SplitInclusiveFrom(text, piece) ==
    IF text = <<>> THEN (IF piece = <<>> THEN <<>> ELSE <<piece>>)
    ELSE IF Head(text) = LF
         THEN <<Append(piece, LF)>> \o SplitInclusiveFrom(Tail(text), <<>>)
         ELSE SplitInclusiveFrom(Tail(text), Append(piece, Head(text)))

\* What str::lines does to one piece: strips its "\n", and then a "\r" before it.
StripLineEnding(piece) ==
    IF ~EndsWith(piece, <<LF>>) THEN piece
    ELSE LET line == SubSeq(piece, 1, Len(piece) - 1)
         IN  IF EndsWith(line, <<"\r">>) THEN SubSeq(line, 1, Len(line) - 1) ELSE line

\* str::lines
Lines(text) ==
    LET pieces == SplitInclusiveFrom(text, <<>>)
    IN  [k \in 1..Len(pieces) |-> StripLineEnding(pieces[k])]

\* [&str]::join(sep)
RECURSIVE Join(_, _)
Join(parts, sep) ==
    IF parts = <<>> THEN <<>>
    ELSE IF Len(parts) = 1 THEN parts[1]
    ELSE parts[1] \o sep \o Join(Tail(parts), sep)

\* Iterator::rev().collect()
Rev(s) == [k \in 1..Len(s) |-> s[Len(s) + 1 - k]]

\* Iterator::take(n).collect()
Take(s, n) == SubSeq(s, 1, IF n < Len(s) THEN n ELSE Len(s))

\* ------------------------------------------------------------------ rendering (edit_pre_msg)

MAX_LINES == 30

\* "以上行数被杜叔叔吃掉了！\n"
TRIMMED_HINT ==
    <<"U+4EE5", "U+4E0A", "U+884C", "U+6570", "U+88AB", "U+675C", "U+53D4", "U+53D4",
      "U+5403", "U+6389", "U+4E86", "U+FF01", LF>>

\* The window of edit_pre_msg with the first lines kept instead of the last (a mutant).
WindowLinesHead(trimmed) ==
    Rev(Append(Rev(Take(Lines(trimmed), MAX_LINES)), TRIMMED_HINT))

\* lines.rev().take(MAX_LINES), push(TRIMMED_HINT), rev(): the parts that are joined.
WindowLines(trimmed) ==
    Rev(Append(Take(Rev(Lines(trimmed)), MAX_LINES), TRIMMED_HINT))

\* The text edit_pre_msg sends for the buffer resp.
RenderText(resp) ==
    LET trimmed    == Trim(resp)
        line_count == Len(Lines(trimmed))
    IN  IF line_count > MAX_LINES THEN Join(WindowLines(trimmed), <<LF>>) ELSE trimmed

\* The message edit_pre_msg sends: the text under one Pre entity (offset 0, the
\* text's length in characters, language lang).
PreMsg(resp, lang) ==
    LET text == RenderText(resp)
    IN  [text |-> text, entities |-> <<[offset |-> 0, length |-> Len(text), language |-> lang]>>]

\* InputMessage::text(s), without entities.
TextMsg(text) == [text |-> text, entities |-> <<>>]

\* ------------------------------------------------------------------ constants of the handlers

\* "No command given"
NO_COMMAND_GIVEN ==
    <<"N", "o", " ", "c", "o", "m", "m", "a", "n", "d", " ", "g", "i", "v", "e", "n">>

\* "少女祈祷中......", the text handle_eval shows while the remote call runs.
EVAL_PLACEHOLDER ==
    <<"U+5C11", "U+5973", "U+7948", "U+7977", "U+4E2D", ".", ".", ".", ".", ".", ".">>

\* "❯ ", which starts the buffer of handle_cmd.
PROMPT == <<"U+276F", " ">>

\* "笨！\n", which precedes the spawn error.
FAIL_MARKER == <<"U+7B28", "U+FF01", LF>>

\* The text of the io::Error of a program that is not found.
SPAWN_ERROR ==
    <<"N", "o", " ", "s", "u", "c", "h", " ", "f", "i", "l", "e", " ", "o", "r", " ", "d",
      "i", "r", "e", "c", "t", "o", "r", "y", " ", "(", "o", "s", " ", "e", "r", "r", "o",
      "r", " ", "2", ")">>

\* The text of the help message (its markdown markers removed, as the chat shows it).
HELP_TEXT ==
    <<"A", "v", "a", "i", "l", "a", "b", "l", "e", " ", "c", "o", "m", "m", "a", "n", "d",
      "s", ":", LF, LF, "+", " ", "-", " ", "R", "e", "p", "l", "y", " ", "t", "o", " ",
      "f", "o", "r", "w", "a", "r", "d", "/", "r", "e", "p", "e", "a", "t", " ", "t", "h",
      "e", " ", "m", "e", "s", "s", "a", "g", "e", " ", " ", " ", " ", LF, "r", "#", "<",
      "c", "o", "d", "e", ">", " ", "-", " ", "E", "v", "a", "l", "u", "a", "t", "e", " ",
      "R", "u", "s", "t", " ", "c", "o", "d", "e", " ", " ", " ", " ", LF, "<", "p", "r",
      "e", "f", "i", "x", ">", "<", "c", "o", "m", "m", "a", "n", "d", ">", " ", "-", " ",
      "E", "x", "e", "c", "u", "t", "e", " ", "a", " ", "s", "h", "e", "l", "l", " ", "c",
      "o", "m", "m", "a", "n", "d", " ", "(", "e", ".", "g", ".", ",", " ", ",", "l", "s",
      ",", " ", "U+FF0C", "l", "s", ",", " ", ".", "l", "s", ",", " ", "U+3002", "l", "s",
      ")", " ", " ", " ", " ", LF, "s", "#", " ", "-", " ", "S", "h", "o", "w", " ", "b",
      "o", "t", " ", "s", "t", "a", "t", "u", "s", " ", " ", " ", " ", LF, "h", "#", " ",
      "-", " ", "S", "h", "o", "w", " ", "t", "h", "i", "s", " ", "h", "e", "l", "p", " ",
      "m", "e", "s", "s", "a", "g", "e">>

\* The first line of the status message; the lines after it hold values of the
\* host (OS, uptime, memory) that no claim reads.
STATUS_TEXT == <<"S", "t", "a", "t", "u", "s", ":">>

\* ------------------------------------------------------------------ the result formatter (eval/run.rs)

NO_OUTPUT == <<"(", "n", "o", " ", "o", "u", "t", "p", "u", "t", ")">>

NOTHING == <<"(", "n", "o", "t", "h", "i", "n", "g", "?", "?", ")">>

ELLIPSIS == <<".", ".", ".">>

\* UnicodeWidthChar::width_cjk(c).unwrap_or(1): the characters written as code
\* points are the wide ones of the model, every other one is narrow or a control.
Width(c) == IF Len(c) > 1 /\ c # LF THEN 2 ELSE 1

\* The inner loop of truncate_output left out: the cut is made right where the
\* budget is exceeded (a mutant).
CutAtOverflow(output, j, truncate_width) == j + 1

\* The inner loop of truncate_output: walking back from the character before
\* position k, the position of the first character at which 3 columns are reached
\* (0 when the text before k is narrower).
RECURSIVE CutBack(_, _, _)
CutBack(output, j, truncate_width) ==
    IF j < 1 THEN 0
    ELSE IF truncate_width + Width(output[j]) >= 3 THEN j
    ELSE CutBack(output, j - 1, truncate_width + Width(output[j]))

\* column_count after the characters lo..hi have been added, halving the range.
RECURSIVE Columns(_, _, _)
Columns(output, lo, hi) ==
    IF lo > hi THEN 0
    ELSE IF lo = hi THEN Width(output[lo])
    ELSE Columns(output, lo, (lo + hi) \div 2) + Columns(output, (lo + hi) \div 2 + 1, hi)

\* line_count after character k.
LineCount(output, k) == Cardinality({j \in 1..k : output[j] = LF})

\* What the body of the outer loop finds at character k: where the inner loop cuts
\* (0 when the budget is not exceeded, or when less than 3 columns precede).
CutAt(output, k, max_total_columns) ==
    IF Columns(output, 1, k) > max_total_columns THEN CutBack(output, k - 1, 0) ELSE 0

\* Whether the outer loop returns at character k, if it gets there.
ReturnsAt(output, k, max_lines, max_total_columns) ==
    \/ CutAt(output, k, max_total_columns) > 0
    \/ output[k] = LF /\ LineCount(output, k) = max_lines

\* The outer loop returns at the first character at which it can, or runs to the
\* end and returns the output as it is.
truncate_output(output, max_lines, max_total_columns) ==
    LET stops == {k \in 1..Len(output) : ReturnsAt(output, k, max_lines, max_total_columns)}
        k     == CHOOSE n \in stops : \A m \in stops : n <= m
        cut   == CutAt(output, k, max_total_columns)
    IN  IF stops = {} THEN output
        ELSE IF cut > 0 THEN SubSeq(output, 1, cut - 1) \o ELLIPSIS
        ELSE SubSeq(output, 1, k - 1) \o ELLIPSIS

\* htmlescape::encode_minimal
EncodeChar(c) ==
    CASE c = "\"" -> <<"&", "q", "u", "o", "t", ";">>
      [] c = "&"  -> <<"&", "a", "m", "p", ";">>
      [] c = "'"  -> <<"&", "#", "x", "2", "7", ";">>
      [] c = "<"  -> <<"&", "l", "t", ";">>
      [] c = ">"  -> <<"&", "g", "t", ";">>
      [] OTHER    -> <<c>>

\* The characters lo..hi encoded, halving the range.
RECURSIVE EncodeRange(_, _, _)
EncodeRange(text, lo, hi) ==
    IF lo > hi THEN <<>>
    ELSE IF lo = hi THEN EncodeChar(text[lo])
    ELSE EncodeRange(text, lo, (lo + hi) \div 2) \o EncodeRange(text, (lo + hi) \div 2 + 1, hi)

encode_minimal(text) == EncodeRange(text, 1, Len(text))

\* str::split('\n'): one piece more than there are line feeds.
RECURSIVE SplitFrom(_, _)
SplitFrom(text, piece) ==
    IF text = <<>> THEN <<piece>>
    ELSE IF Head(text) = LF THEN <<piece>> \o SplitFrom(Tail(text), <<>>)
    ELSE SplitFrom(Tail(text), Append(piece, Head(text)))

IsNoise(line) ==
    \/ StartsWith(line, <<"C", "o", "m", "p", "i", "l", "i", "n", "g">>)
    \/ StartsWith(line, <<"F", "i", "n", "i", "s", "h", "e", "d">>)
    \/ StartsWith(line, <<"R", "u", "n", "n", "i", "n", "g">>)
    \/ line = <<>>

\* The loop without its test for "error": the first line that is not noise is
\* returned (a mutant).
ReturnLineFirstSeen(lines, return_line) ==
    LET ks == {k \in 1..Len(lines) : ~IsNoise(Trim(lines[k]))}
    IN  IF return_line # <<>> \/ ks = {} THEN return_line
        ELSE Trim(lines[CHOOSE k \in ks : \A j \in ks : k <= j])

\* The loop over the lines of stderr: return_line, <<>> standing for None (a line
\* that is kept is never empty).
RECURSIVE ReturnLine(_, _)
ReturnLine(lines, return_line) ==
    IF lines = <<>> THEN return_line
    ELSE LET line == Trim(Head(lines))
         IN  IF IsNoise(line) THEN ReturnLine(Tail(lines), return_line)
             ELSE IF StartsWith(line, <<"e", "r", "r", "o", "r">>) THEN line
             ELSE ReturnLine(Tail(lines), IF return_line = <<>> THEN line ELSE return_line)

\* The output of a successful response as it is shown: trimmed, and truncated to
\* MAX_LINES = 3 lines and MAX_TOTAL_COLUMNS = 3 * 72 columns.
Truncated(stdout) == truncate_output(Trim(stdout), 3, 3 * 72)

\* generate_result_from_response(resp, Channel::Nightly, false). The three regex
\* rewrites of the failure line (error[E....]:, `code`, (see issue #n)) leave a line
\* without "[", "`" and "(" as it is, and the responses of the model hold none.
generate_result_from_response(resp) ==
    IF resp.success
    THEN LET output == Truncated(resp.stdout)
         IN  IF output = <<>> THEN NO_OUTPUT ELSE encode_minimal(output)
    ELSE LET line == ReturnLine(SplitFrom(resp.stderr, <<>>), <<>>)
         IN  IF line = <<>> THEN NOTHING ELSE encode_minimal(line)

\* The message edit_eval_msg sends: the trimmed code under a Pre entity "Rust",
\* then a line feed and the trimmed result under a Pre entity "Output".
EvalMsg(code, resp) ==
    LET c == Trim(code)
        r == <<LF>> \o Trim(resp)
    IN  [text     |-> c \o r,
         entities |-> <<[offset |-> 0, length |-> Len(c), language |-> "Rust"],
                        [offset |-> Len(c), length |-> Len(r), language |-> "Output"]>>]

\* ------------------------------------------------------------------ the snippet compiler (eval/run.rs)

\* UNICODE_CHARS_MAP: the replacement of a character, or the character itself.
NormalizeChar(c) ==
    CASE c \in {"U+201C", "U+201D"} -> <<"\"">>
      [] c \in {"U+2018", "U+2019"} -> <<"'">>
      [] c = "U+2014"               -> <<"-", "-">>
      [] c = "U+00A0"               -> <<" ">>
      [] OTHER                      -> <<c>>

\* char::is_ascii: the characters outside ASCII are written as code points.
IsAscii(c) == Len(c) = 1 \/ c = LF

RECURSIVE NormalizeFrom(_)
NormalizeFrom(input) ==
    IF input = <<>> THEN <<>>
    ELSE NormalizeChar(Head(input)) \o NormalizeFrom(Tail(input))

\* An input that is all ASCII is returned as it is.
normalize_unicode_chars(input) ==
    IF \A k \in 1..Len(input) : IsAscii(input[k]) THEN input ELSE NormalizeFrom(input)

\* str::contains
Contains(text, pat) ==
    \E k \in 0..(Len(text) - Len(pat)) : SubSeq(text, k + 1, k + Len(pat)) = pat

\* The results of a parser of the combine crate are positions: the position after
\* what it consumed when it succeeds, PEEK when it fails without having consumed
\* input, COMMIT when it fails after having consumed some.
PEEK == 0
COMMIT == 0 - 1

\* A tuple of parsers that started at `start` and whose next parser, run at `at`,
\* gave r: the tuple fails committed once input has been consumed.
After(start, at, r) == IF r > 0 THEN r ELSE IF at > start THEN COMMIT ELSE r

\* choice((a, b)): b is tried when a fails without having consumed.
choice(a, b) == IF a = PEEK THEN b ELSE a

\* token(c)
token(text, p, c) == IF p <= Len(text) /\ text[p] = c THEN p + 1 ELSE PEEK

\* spaces(): skip_many(space()); it never fails.
RECURSIVE spaces(_, _)
spaces(text, p) ==
    IF p <= Len(text) /\ text[p] \in WhiteSpace THEN spaces(text, p + 1) ELSE p

\* (space(), spaces())
spaces1(text, p) ==
    IF p <= Len(text) /\ text[p] \in WhiteSpace THEN spaces(text, p + 1) ELSE PEEK

\* The number of leading characters of s that text has at p.
RECURSIVE Matched(_, _, _)
Matched(text, p, s) ==
    IF s # <<>> /\ p <= Len(text) /\ text[p] = Head(s)
    THEN 1 + Matched(text, p + 1, Tail(s))
    ELSE 0

\* string(s): compares character by character, consuming what matches.
string(text, p, s) ==
    LET n == Matched(text, p, s)
    IN  IF n = Len(s) THEN p + n ELSE IF n = 0 THEN PEEK ELSE COMMIT

\* A tuple of the parsers named in ps that started at `start` and whose parsers so
\* far ended at `at`: they run one after the other, and the first failure is the
\* tuple's.
RECURSIVE tuple(_, _, _, _)
RECURSIVE parser(_, _, _)
tuple(text, start, at, ps) ==
    IF at <= 0 \/ ps = <<>> THEN at
    ELSE tuple(text, start, After(start, at, parser(text, at, Head(ps))), Tail(ps))

\* skip_many(none_of(once(']')))
RECURSIVE skip_none_of(_, _)
skip_none_of(text, p) ==
    IF p <= Len(text) /\ text[p] # "]" THEN skip_none_of(text, p + 1) ELSE p

\* (token('['), skip_many(none_of(once(']'))), token(']'))
attr_content(text, p) == tuple(text, p, p, <<"[", "none_of", "]">>)

\* (token('#'), spaces(), attr_content())
outer_attr(text, p) == tuple(text, p, p, <<"#", "spaces", "attr_content">>)

\* (token('#'), spaces(), token('!'), spaces(), attr_content())
inner_attr(text, p) == tuple(text, p, p, <<"#", "spaces", "!", "spaces", "attr_content">>)

\* skip_many(outer_attr): ends where outer_attr fails without having consumed, and
\* fails where it fails after having consumed.
RECURSIVE skip_many_outer_attr(_, _)
skip_many_outer_attr(text, p) ==
    LET r == outer_attr(text, p)
    IN  IF r > 0 THEN skip_many_outer_attr(text, r) ELSE IF r = PEEK THEN p ELSE COMMIT

\* char::is_alphanumeric, on the characters the model uses.
AlphaNum ==
    {"a", "b", "c", "d", "e", "f", "g", "h", "i", "j", "k", "l", "m", "n", "o", "p", "q",
     "r", "s", "t", "u", "v", "w", "x", "y", "z", "0", "1", "2", "3", "4", "5", "6", "7",
     "8", "9"}

RECURSIVE skip_ident(_, _)
skip_ident(text, p) ==
    IF p <= Len(text) /\ text[p] \in AlphaNum \cup {"_"} THEN skip_ident(text, p + 1) ELSE p

\* skip_many1(choice((alpha_num(), token('_'))))
skip_many1_ident(text, p) ==
    IF p <= Len(text) /\ text[p] \in AlphaNum \cup {"_"} THEN skip_ident(text, p + 1) ELSE PEEK

EXTERN == <<"e", "x", "t", "e", "r", "n">>

CRATE == <<"c", "r", "a", "t", "e">>

\* (skip_many(outer_attr), spaces(), string("extern"), spaces1(), string("crate"),
\*  spaces1(), skip_many1(..), spaces(), token(';'))
extern_crate(text, p) ==
    tuple(text, p, p, <<"skip_many(outer_attr)", "spaces", "extern", "spaces1", "crate",
                        "spaces1", "skip_many1", "spaces", ";">>)

\* The parsers the tuples name; a character names its token.
parser(text, p, name) ==
    CASE name = "spaces"                -> spaces(text, p)
      [] name = "spaces1"               -> spaces1(text, p)
      [] name = "extern"                -> string(text, p, EXTERN)
      [] name = "crate"                 -> string(text, p, CRATE)
      [] name = "none_of"               -> skip_none_of(text, p)
      [] name = "skip_many1"            -> skip_many1_ident(text, p)
      [] name = "attr_content"          -> attr_content(text, p)
      [] name = "skip_many(outer_attr)" -> skip_many_outer_attr(text, p)
      [] OTHER                          -> token(text, p, name)

\* attempt(p) without its reset: the failure stays as it is (a mutant).
attempt_committing(r) == r

\* attempt(p): a failure of p counts as one that consumed nothing.
attempt(r) == IF r > 0 THEN r ELSE PEEK

\* choice((attempt(ignore(extern_crate)), attempt(ignore(inner_attr)))): the second
\* is tried when the first fails without having consumed.
header_item(text, p) ==
    choice(attempt(extern_crate(text, p)), attempt(inner_attr(text, p)))

\* skip_many((choice(..), spaces()))
RECURSIVE skip_many_items(_, _)
skip_many_items(text, p) ==
    LET r == header_item(text, p)
    IN  IF r > 0 THEN skip_many_items(text, spaces(text, r))
        ELSE IF r = PEEK THEN p ELSE COMMIT

\* recognize((spaces(), skip_many(..))).parse(code): where the header ends, or a
\* failure.
header(code) ==
    LET a == spaces(code, 1)
    IN  After(1, a, skip_many_items(code, a))

\* Ok((headers, rest)) => (headers, rest), Err(_) => ("", code): the range the
\* parser recognized, up to `end`, and the rest of the input, or nothing and the
\* input when it failed.
recognized(code, end) ==
    IF end > 0 THEN <<SubSeq(code, 1, end - 1), SubSeq(code, end, Len(code))>>
    ELSE <<<<>>, code>>

extract_code_headers(code) == recognized(code, header(code))

\* include_str!("prelude.res.rs"): a text of imports, standing as one character.
PRELUDE == <<"PRELUDE">>

FN_MAIN == <<"f", "n", " ", "m", "a", "i", "n", "(", ")">>

PRINTLN == <<"p", "r", "i", "n", "t", "l", "n", "!">>

PRINT == <<"p", "r", "i", "n", "t", "!">>

ALLOW_WARNINGS ==
    <<"#", "!", "[", "a", "l", "l", "o", "w", "(", "w", "a", "r", "n", "i", "n", "g", "s",
      ")", "]">>

MAIN_OPEN ==
    <<"f", "n", " ", "m", "a", "i", "n", "(", ")", " ", "-", ">", " ", "R", "e", "s", "u",
      "l", "t", "<", "(", ")", ",", " ", "B", "o", "x", "<", "d", "y", "n", " ", "s", "t",
      "d", ":", ":", "e", "r", "r", "o", "r", ":", ":", "E", "r", "r", "o", "r", ">", ">",
      " ", "{">>

MAIN_OK == <<" ", " ", " ", " ", "O", "k", "(", "(", ")", ")">>

DEBUG_OPEN ==
    <<"p", "r", "i", "n", "t", "l", "n", "!", "(", "\"", "{", ":", "?", "}", "\"", ",",
      " ", "{">>

DEBUG_CLOSE == <<" ", " ", " ", " ", "}", ")", ";">>

\* The inner format! of generate_code_to_send: what stands in the entry point. In
\* the branch of a body that prints, {code} names the parameter of the function,
\* the whole snippet.
Wrapped(code, body) ==
    IF Contains(body, PRINTLN) \/ Contains(body, PRINT)
    THEN <<"{", LF>> \o code \o <<LF, "}", ";">>
    ELSE DEBUG_OPEN \o <<LF>> \o <<" ", " ", " ", " ", " ", " ", " ", " ">> \o body \o <<LF>>
         \o DEBUG_CLOSE \o <<LF>>

\* The outer format! of generate_code_to_send, on the headers and the body
\* extract_code_headers gave.
Unit(code, hb) ==
    ALLOW_WARNINGS \o <<LF>> \o hb[1] \o <<LF>> \o PRELUDE \o <<LF>>
    \o MAIN_OPEN \o <<LF>>
    \o <<" ", " ", " ", " ">> \o Wrapped(code, hb[2]) \o <<LF>>
    \o MAIN_OK \o <<LF>> \o <<"}", LF>>

generate_code_to_send(code) ==
    IF Contains(code, FN_MAIN) THEN code ELSE Unit(code, extract_code_headers(code))

\* ------------------------------------------------------------------ the router (TomorinClient::update)

CMD_PREFIXES == << <<",">>, <<"U+FF0C">>, <<".">>, <<"U+3002">> >>
REPEAT == <<"+">>
EVAL   == <<"r", "#">>
HELP   == <<"h", "#">>
STATUS == <<"s", "#">>

\* The id of the authenticated user (self.me.id()).
ME == "me"

\* The positions in CMD_PREFIXES of the prefixes the text starts with.
MatchingPrefixes(text) == {k \in 1..Len(CMD_PREFIXES) : StartsWith(text, CMD_PREFIXES[k])}

FirstOf(S) == CHOOSE k \in S : \A j \in S : k <= j

\* text == REPEAT, with a prefix test in the place of the equality (a mutant).
IsRepeatByPrefix(text) == StartsWith(text, REPEAT)

\* text == REPEAT
IsRepeat(text) == text = REPEAT

\* The chain of tests of update on the text of a message of the bot's own: the
\* handler it calls and the argument it passes.
Route(text) ==
    IF IsRepeat(text) THEN [handler |-> "handle_repeat", arg |-> <<>>]
    ELSE IF StartsWith(text, EVAL)
         THEN [handler |-> "handle_eval", arg |-> TrimStartMatches(text, EVAL)]
    ELSE IF MatchingPrefixes(text) # {}
         THEN [handler |-> "handle_cmd",
               arg     |-> TrimStartMatches(text, CMD_PREFIXES[FirstOf(MatchingPrefixes(text))])]
    ELSE IF StartsWith(text, HELP) THEN [handler |-> "handle_help", arg |-> <<>>]
    ELSE IF StartsWith(text, STATUS) THEN [handler |-> "handle_status", arg |-> <<>>]
    ELSE [handler |-> "none", arg |-> <<>>]

\* The guard of update with the sender test left out (a mutant).
IsActionableAnySender(u) == u.kind \in {"NewMessage", "MessageEdited"}

\* NewMessage(m) | MessageEdited(m), and m.sender() is Some(a) with a.id() == me.id().
IsActionable(u) ==
    /\ u.kind \in {"NewMessage", "MessageEdited"}
    /\ u.sender = ME

Dispatch(u) ==
    IF IsActionable(u) THEN Route(u.text) ELSE [handler |-> "none", arg |-> <<>>]

\* ------------------------------------------------------------------ state

VARIABLES
    pending,    \* what the transport will deliver: the results of next_update, in order
    host,       \* what a spawned program does on this host: found or not, its two streams
    loop,       \* UserBot::run: "running" (waiting in select, the listener of this
                \* iteration's ctrl_c() registered), "fetched" (select returned the
                \* result of next_update, which is still the head of pending),
                \* "notified" (the listener has seen a signal), or "exited"
    tasks,      \* the tasks run has spawned, one per fetched update, in spawn order
    interrupted,\* whether the process has been sent an interrupt signal
    service     \* what the remote execution service can answer to a request

vars == <<pending, host, loop, tasks, interrupted, service>>

\* An update as the router reads it. kind "Err" stands for next_update returning Err.
Upd(kind, sender, text) == [kind |-> kind, sender |-> sender, text |-> text]

\* A history counter: 0, 1, or 2 for "more than once".
Bump(n) == IF n < 2 THEN n + 1 ELSE 2

\* The task task::spawn creates for an update: client.update(update) not yet polled.
\*   pc        where the task stands: "update", a handler's name, "eval" (waiting
\*             for the remote call), "edit_eval_msg" (waiting for its edit), "select"
\*             (in the loop of read_buffer_per_tick), "push" (waiting for the edit
\*             f sent at a tick), "ok" / "err" (update returned Ok / Err)
\*   msg       the content of the chat message m; deleted once m.delete() succeeded
\*   resp      the buffer of handle_cmd
\*   request   the code EvalClient::eval sent; split, what extract_code_headers
\*             returned if generate_code_to_send called it (extracted)
\*   response  the Response of the service; truncated, what truncate_output
\*             returned if the response was a success
\*   sent      the buffer f was called with at the last tick; payload, the
\*             message f built from it
\*   edit_result  how the last edit of edit_pre_msg or edit_eval_msg ended
\*   nout/nerr lines read so far from the two streams
\*   handlers, edits, ticks, spawns, reads, formats: history counters (see Bump)
NewTask(u) ==
    [upd |-> u, pc |-> "update", handler |-> "none", arg |-> <<>>,
     msg |-> TextMsg(u.text), deleted |-> FALSE,
     resp |-> <<>>, sent |-> <<>>, payload |-> TextMsg(<<>>), edit_result |-> "none",
     result |-> <<>>,
     request |-> <<>>, split |-> << <<>>, <<>> >>, extracted |-> FALSE,
     response |-> [success |-> FALSE, stdout |-> <<>>, stderr |-> <<>>], truncated |-> <<>>,
     stdout_done |-> FALSE, stderr_done |-> FALSE, nout |-> 0, nerr |-> 0,
     handlers |-> 0, edits |-> 0, ticks |-> 0, spawns |-> 0, reads |-> 0, formats |-> 0,
     error |-> "none"]

\* The results Message::edit can have: Telegram refuses an edit that changes
\* nothing with MESSAGE_NOT_MODIFIED; any edit can fail otherwise (network, flood wait).
EditResults(msg, new) ==
    IF new = msg THEN {"MESSAGE_NOT_MODIFIED", "FAILED"} ELSE {"OK", "FAILED"}

\* What the remote execution service can answer.
Responses ==
    { [success |-> TRUE,  stdout |-> <<"2", LF>>, stderr |-> <<>>],
      [success |-> TRUE,  stdout |-> <<>>,        stderr |-> <<>>],
      [success |-> FALSE, stdout |-> <<>>,
       stderr  |-> <<" ", "C", "o", "m", "p", "i", "l", "i", "n", "g", LF,
                     "e", "r", "r", "o", "r", ":", " ", "x", LF>>] }

\* The outcomes of EvalClient::eval: send()/error_for_status()/json() fail, or a Response.
EvalOutcomes ==
    { [ok |-> FALSE, resp |-> [success |-> FALSE, stdout |-> <<>>, stderr |-> <<>>]] }
    \cup { [ok |-> TRUE, resp |-> r] : r \in service }

\* ------------------------------------------------------------------ the ingestion loop (UserBot::run)

\* run with client.update(update).await in the loop itself: the next iteration
\* starts when the handler has returned (a mutant).
HandlersAwaited(ts) == \A i \in DOMAIN ts : ts[i].pc \in {"ok", "err"}

\* What the tasks spawned so far, ts, mean for the next iteration: nothing;
\* task::spawn returns at once and the JoinHandle is dropped.
HandlersDetached(ts) == TRUE

\* select(exit, upd) polls exit first; it is pending, and upd is ready: select
\* completes with the next result of next_update. The ctrl_c() future of this
\* iteration is not polled again.
next_update ==
    /\ loop = "running"
    /\ HandlersDetached(tasks)
    /\ pending # <<>>
    /\ loop' = "fetched"
    /\ UNCHANGED <<pending, host, tasks, interrupted, service>>

\* The rest of the iteration: Err is logged and the loop continues; an update is
\* handed to a new task. The next iteration creates its futures, and the first poll
\* of select registers the listener of the new ctrl_c().
task_spawn ==
    /\ loop = "fetched"
    /\ pending' = Tail(pending)
    /\ tasks' = IF Head(pending).kind = "Err" THEN tasks
                ELSE Append(tasks, NewTask(Head(pending)))
    /\ loop' = "running"
    /\ UNCHANGED <<host, interrupted, service>>

\* What a signal does to the loop standing at l. tokio::signal::ctrl_c() completes
\* on the first signal after its listener was registered: the listener the loop
\* waits with is notified; between the return of select and the registration of
\* the next iteration there is no listener that will be polled, and the signal
\* (whose default action the first registration replaced) is dropped.
ListenerPerIteration(l) == IF l = "running" THEN "notified" ELSE l

\* The process is sent an interrupt signal.
interrupt ==
    /\ loop # "exited"
    /\ interrupted' = TRUE
    /\ loop' = ListenerPerIteration(loop)
    /\ UNCHANGED <<pending, host, tasks, service>>

\* select(exit, upd) is polled with the listener notified; exit is polled first,
\* so also with an update ready it completes with Left: break.
ctrl_c ==
    /\ loop = "notified"
    /\ loop' = "exited"
    /\ UNCHANGED <<pending, host, tasks, interrupted, service>>

\* ------------------------------------------------------------------ a task: update and the handlers

\* run with the result of update returned by `?` instead of logged (a mutant).
LoopAfterTaskPropagating(l, t) == IF t.pc = "err" THEN "exited" ELSE l

\* What a step of a spawned task does to run: nothing; the task matches on the
\* result of update itself and logs an Err (tracing::error!).
LoopAfterTask(l, t) == l

Step(i, t) ==
    /\ tasks' = [tasks EXCEPT ![i] = t]
    /\ loop' = LoopAfterTask(loop, t)
    /\ UNCHANGED <<pending, host, interrupted, service>>

\* update, up to the call of the handler (none: update returns Ok).
update(i) ==
    /\ i \in DOMAIN tasks
    /\ tasks[i].pc = "update"
    /\ LET d == Dispatch(tasks[i].upd)
       IN  Step(i, [tasks[i] EXCEPT !.pc = IF d.handler = "none" THEN "ok" ELSE d.handler,
                                    !.handler = d.handler,
                                    !.arg = d.arg])

\* A handler that edits the message once to new and returns: m.edit(new).await?
EditOnce(t, new, r) ==
    [t EXCEPT !.handlers = Bump(@), !.edits = Bump(@),
              !.msg = IF r = "OK" THEN new ELSE @,
              !.pc = IF r = "OK" THEN "ok" ELSE "err",
              !.error = IF r = "OK" THEN "none" ELSE "edit"]

\* handle_repeat: get_reply, forward (or send a copy), then m.delete(); any of
\* them failing returns Err.
handle_repeat(i) ==
    /\ i \in DOMAIN tasks
    /\ tasks[i].pc = "handle_repeat"
    /\ \E r \in {"OK", "FAILED"} :
         Step(i, [tasks[i] EXCEPT !.handlers = Bump(@),
                                  !.deleted = (r = "OK"),
                                  !.pc = IF r = "OK" THEN "ok" ELSE "err",
                                  !.error = IF r = "OK" THEN "none" ELSE "rpc"])

handle_help(i) ==
    /\ i \in DOMAIN tasks
    /\ tasks[i].pc = "handle_help"
    /\ \E r \in EditResults(tasks[i].msg, TextMsg(HELP_TEXT)) :
         Step(i, EditOnce(tasks[i], TextMsg(HELP_TEXT), r))

handle_status(i) ==
    /\ i \in DOMAIN tasks
    /\ tasks[i].pc = "handle_status"
    /\ \E r \in EditResults(tasks[i].msg, TextMsg(STATUS_TEXT)) :
         Step(i, EditOnce(tasks[i], TextMsg(STATUS_TEXT), r))

\* handle_eval, up to the remote call: m.edit(placeholder).await?
handle_eval(i) ==
    /\ i \in DOMAIN tasks
    /\ tasks[i].pc = "handle_eval"
    /\ \E r \in EditResults(tasks[i].msg, TextMsg(EVAL_PLACEHOLDER)) :
         Step(i, [EditOnce(tasks[i], TextMsg(EVAL_PLACEHOLDER), r)
                    EXCEPT !.pc = IF r = "OK" THEN "eval" ELSE "err"])

\* What handle_eval does with an Err of EvalClient::eval: `?` returns it.
EvalFailed(t) == [t EXCEPT !.pc = "err", !.error = "remote"]

\* The start of EvalClient::eval: the code is normalized and made a compile unit,
\* which is sent in the request.
Requested(t) ==
    LET code == normalize_unicode_chars(t.arg)
    IN  [t EXCEPT !.request = generate_code_to_send(code),
                  !.extracted = ~Contains(code, FN_MAIN),
                  !.split = IF Contains(code, FN_MAIN) THEN @ ELSE extract_code_headers(code)]

\* EvalClient::eval(code).await? answers: Err is returned to the caller; a response
\* is formatted and edit_eval_msg sends its edit.
eval(i) ==
    /\ i \in DOMAIN tasks
    /\ tasks[i].pc = "eval"
    /\ \E o \in EvalOutcomes :
         Step(i, IF ~o.ok THEN EvalFailed(Requested(tasks[i]))
                 ELSE [Requested(tasks[i])
                               EXCEPT !.formats = Bump(@),
                                       !.response = o.resp,
                                       !.result = generate_result_from_response(o.resp),
                                       !.truncated = IF o.resp.success
                                                     THEN Truncated(o.resp.stdout) ELSE @,
                                       !.edits = Bump(@),
                                       !.pc = "edit_eval_msg"])

\* edit_pre_msg with every Err of the edit returned, the one of an unchanged
\* content too (a mutant).
AfterEditStrict(t, new, r, next) ==
    [t EXCEPT !.msg = IF r = "OK" THEN new ELSE @,
              !.edit_result = r,
              !.pc = IF r = "OK" THEN next ELSE "err",
              !.error = IF r = "OK" THEN @ ELSE "edit"]

\* How edit_pre_msg and edit_eval_msg end on the result r of their edit of new:
\* MESSAGE_NOT_MODIFIED counts as Ok.
AfterEdit(t, new, r, next) ==
    [t EXCEPT !.msg = IF r = "OK" THEN new ELSE @,
              !.edit_result = r,
              !.pc = IF r = "FAILED" THEN "err" ELSE next,
              !.error = IF r = "FAILED" THEN "edit" ELSE @]

\* The edit of edit_eval_msg answers.
edit_eval_msg(i) ==
    /\ i \in DOMAIN tasks
    /\ tasks[i].pc = "edit_eval_msg"
    /\ LET new == EvalMsg(tasks[i].arg, tasks[i].result)
       IN  \E r \in EditResults(tasks[i].msg, new) :
             Step(i, AfterEdit(tasks[i], new, r, "ok"))

\* ------------------------------------------------------------------ handle_cmd and read_buffer_per_tick

\* The buffer handle_cmd starts with: format!("❯ {cmd}") and a line feed.
Header(cmd) == PROMPT \o cmd \o <<LF>>

\* The style tag of the report of a spawn failure, taken for that of the renders (a mutant).
SpawnErrorLangStdOut == "StdOut"

\* The style tag handle_cmd gives the report of a spawn failure.
SpawnErrorLang == "StdErr"

\* handle_cmd, up to its first await: without a program the message is edited to
\* "No command given"; when the spawn fails the error is appended to the buffer and
\* edit_pre_msg sends it; else the select loop starts.
handle_cmd(i) ==
    /\ i \in DOMAIN tasks
    /\ tasks[i].pc = "handle_cmd"
    /\ LET t     == tasks[i]
           parts == SplitWhitespace(t.arg)
       IN  IF parts = <<>>
           THEN \E r \in EditResults(t.msg, TextMsg(NO_COMMAND_GIVEN)) :
                  Step(i, EditOnce(t, TextMsg(NO_COMMAND_GIVEN), r))
           ELSE IF ~host.found
           THEN LET resp == Header(t.arg) \o FAIL_MARKER \o SPAWN_ERROR
                    new  == PreMsg(resp, SpawnErrorLang)
                IN  \E r \in EditResults(t.msg, new) :
                      Step(i, [AfterEdit(t, new, r, "ok")
                                 EXCEPT !.handlers = Bump(@), !.spawns = Bump(@),
                                        !.edits = Bump(@), !.resp = resp])
           ELSE Step(i, [t EXCEPT !.handlers = Bump(@), !.spawns = Bump(@),
                                  !.resp = Header(t.arg), !.pc = "select"])

\* The line put in front of the buffer (a mutant).
PushLineFront(t, line) == [t EXCEPT !.resp = line \o <<LF>> \o @, !.reads = Bump(@)]

\* The line pushed without its line feed (a mutant).
PushLineBare(t, line) == [t EXCEPT !.resp = @ \o line, !.reads = Bump(@)]

\* msg.push_str(&line); msg.push('\n')
PushLine(t, line) == [t EXCEPT !.resp = @ \o line \o <<LF>>, !.reads = Bump(@)]

\* Err(e) of next_line taken for the end of the stream (a mutant).
ReadFailedAsEnd(t) == [t EXCEPT !.stdout_done = TRUE, !.stderr_done = TRUE, !.error = "read"]

\* Err(e) => return Err(e.into())
ReadFailed(t) == [t EXCEPT !.pc = "err", !.error = "read"]

\* A render run beside the loop, which goes on reading while the edit is awaited
\* (a mutant).
PolledBesidePush(t) == t.pc \in {"select", "push"}

\* When the branches of select! are polled: while the loop waits in select!. The
\* handler of the tick branch awaits f(msg) in the loop's own task, and the
\* next_line() futures of that round were dropped when the tick completed.
Polled(t) == t.pc = "select"

\* The branch of select! on stdout_reader.next_line(), enabled while !stdout_done:
\* a line, the end of the stream, or an I/O error, which returns Err.
read_stdout(i) ==
    /\ i \in DOMAIN tasks
    /\ Polled(tasks[i])
    /\ ~tasks[i].stdout_done
    /\ LET t == tasks[i]
       IN  \/ /\ t.nout < Len(host.out)
              /\ Step(i, [PushLine(t, host.out[t.nout + 1]) EXCEPT !.nout = @ + 1])
           \/ /\ t.nout = Len(host.out)
              /\ Step(i, [t EXCEPT !.stdout_done = TRUE])
           \/ Step(i, ReadFailed(t))

\* The branch of select! on stderr_reader.next_line(), enabled while !stderr_done.
read_stderr(i) ==
    /\ i \in DOMAIN tasks
    /\ Polled(tasks[i])
    /\ ~tasks[i].stderr_done
    /\ LET t == tasks[i]
       IN  \/ /\ t.nerr < Len(host.err)
              /\ Step(i, [PushLine(t, host.err[t.nerr + 1]) EXCEPT !.nerr = @ + 1])
           \/ /\ t.nerr = Len(host.err)
              /\ Step(i, [t EXCEPT !.stderr_done = TRUE])
           \/ Step(i, ReadFailed(t))

\* A render that also shows how many ticks there have been (a mutant).
PayloadCounting(t) == PreMsg(t.resp \o [k \in 1..t.ticks |-> "."], "StdOut")

\* The closure handle_cmd passes as f, called with the buffer: the message
\* edit_pre_msg(&m2, resp, "StdOut") builds.
Payload(t) == PreMsg(t.resp, "StdOut")

\* The branch of select! on ticker.tick(): f(msg) is called, which sends the edit
\* of edit_pre_msg(resp, "StdOut") and waits for it. The branch has no
\* precondition, so the `else => break` of the select! never runs.
tick(i) ==
    /\ i \in DOMAIN tasks
    /\ tasks[i].pc = "select"
    /\ Step(i, [tasks[i] EXCEPT !.ticks = Bump(@), !.edits = Bump(@),
                                !.sent = tasks[i].resp, !.payload = Payload(tasks[i]),
                                !.pc = "push"])

\* The test after f(msg).await?, with one closed stream being enough (a mutant).
BothDoneEither(t) == t.stdout_done \/ t.stderr_done

\* The loop without a break after the render (a mutant).
BothDoneNever(t) == FALSE

\* if stdout_done && stderr_done { break }
BothDone(t) == t.stdout_done /\ t.stderr_done

\* The edit of a tick answers: an error returns Err; else the loop breaks when both
\* streams are done, read_buffer_per_tick and handle_cmd return Ok, or goes on.
push(i) ==
    /\ i \in DOMAIN tasks
    /\ tasks[i].pc = "push"
    /\ LET t == tasks[i]
       IN  \E r \in EditResults(t.msg, t.payload) :
             Step(i, AfterEdit(t, t.payload, r, IF BothDone(t) THEN "ok" ELSE "select"))

\* ------------------------------------------------------------------ specifications

TaskStep(i) ==
    \/ update(i)
    \/ handle_repeat(i)
    \/ handle_eval(i)
    \/ eval(i)
    \/ edit_eval_msg(i)
    \/ handle_cmd(i)
    \/ read_stdout(i)
    \/ read_stderr(i)
    \/ tick(i)
    \/ push(i)
    \/ handle_help(i)
    \/ handle_status(i)

\* The tasks there can be: run spawns one for each update fetched.
TaskIds == 1..MaxUpdates

Next ==
    \/ next_update
    \/ task_spawn
    \/ interrupt
    \/ ctrl_c
    \/ \E i \in TaskIds : TaskStep(i)

Kinds == {"NewMessage", "MessageEdited", "Other", "Err"}
Senders == {ME, "other", "none"}

\* One text for each handler.
CoreTexts == { REPEAT, <<"r", "#", "1">>, <<",", "x">>, HELP, STATUS }

\* What the transport delivers in the ingestion-loop specification.
CoreFeed ==
    { Upd("NewMessage", ME, t) : t \in CoreTexts }
    \cup { Upd("MessageEdited", "other", <<",", "x">>), Upd("Err", "none", <<>>) }

SeqsUpTo(S, n) == UNION { [1..k -> S] : k \in 0..n }

\* A host without the program, and one whose program ends without output.
CoreHosts ==
    { [found |-> FALSE, out |-> <<>>, err |-> <<>>],
      [found |-> TRUE,  out |-> <<>>, err |-> <<>>] }

\* The ingestion loop with up to MaxUpdates updates in flight.
Init ==
    /\ pending \in SeqsUpTo(CoreFeed, MaxUpdates)
    /\ host \in CoreHosts
    /\ loop = "running"
    /\ tasks = <<>>
    /\ interrupted = FALSE
    /\ service = Responses

Spec == Init /\ [][Next]_vars

\* The characters the router distinguishes, a letter and a blank.
RouteAlphabet == {"+", "r", "#", ",", "U+FF0C", ".", "U+3002", "h", "s", "x", " "}

\* The router on every update with a text of up to MaxTextLen characters.
InitRoute ==
    /\ \E k \in Kinds, s \in Senders, t \in SeqsUpTo(RouteAlphabet, MaxTextLen) :
         pending = <<Upd(k, s, t)>>
    /\ host \in CoreHosts
    /\ loop = "running"
    /\ tasks = <<>>
    /\ interrupted = FALSE
    /\ service = Responses

SpecRoute == InitRoute /\ [][Next]_vars

Digits == <<"0", "1", "2", "3", "4", "5", "6", "7", "8", "9">>

\* Line n of a program that counts: its two digits.
Numbered(n) == <<Digits[(n \div 10) + 1], Digits[(n % 10) + 1]>>

\* A program that prints "hi", and one that prints an empty line after it and
\* writes a line to standard error.
StreamHosts ==
    { [found |-> TRUE, out |-> << <<"h", "i">> >>, err |-> <<>>],
      [found |-> TRUE, out |-> << <<"h", "i">>, <<>> >>, err |-> << <<"e">> >>] }

\* Programs that print MaxOut numbered lines and then perhaps an empty line, more
\* than the window holds; and the programs above.
RenderHosts ==
    { [found |-> TRUE, out |-> [k \in 1..MaxOut |-> Numbered(k)] \o blank, err |-> <<>>] :
      blank \in {<<>>, << <<>> >>} }
    \cup StreamHosts

\* One update, on the hosts above: shell commands with output longer than the window.
InitRender ==
    /\ \E u \in CoreFeed : pending = <<u>>
    /\ host \in CoreHosts \cup RenderHosts
    /\ loop = "running"
    /\ tasks = <<>>
    /\ interrupted = FALSE
    /\ service = Responses

SpecRender == InitRender /\ [][Next]_vars

\* One update, on hosts whose programs write a few lines to their streams.
InitStreams ==
    /\ \E u \in CoreFeed : pending = <<u>>
    /\ host \in CoreHosts \cup StreamHosts
    /\ loop = "running"
    /\ tasks = <<>>
    /\ interrupted = FALSE
    /\ service = Responses

\* The scheduling of read_buffer_per_tick: the interval keeps firing while the loop
\* waits in select!, and an edit that was sent is answered (weak fairness);
\* select! picks at random among its branches that are ready, so a stream that is
\* ready again and again is read in the end, however often the timer fires in
\* between (strong fairness).
\* The specification delivers one update, so the task is the first.
StreamsFairness ==
    /\ WF_vars(tick(1))
    /\ WF_vars(push(1))
    /\ SF_vars(read_stdout(1))
    /\ SF_vars(read_stderr(1))

SpecStreams == InitStreams /\ [][Next]_vars /\ StreamsFairness

\* The pieces snippets are put together from: declarations of external crates
\* (one with white space around and inside, one under an outer attribute, one
\* that renames), an inner attribute, an expression (starting like "extern"), a
\* call that prints (typed with curly quotes), an entry point.
DECL_A == <<"e", "x", "t", "e", "r", "n", " ", "c", "r", "a", "t", "e", " ", "a", ";">>

DECL_B ==
    <<" ", "e", "x", "t", "e", "r", "n", " ", " ", "c", "r", "a", "t", "e", LF, "b", "_",
      "1", " ", ";", LF>>

DECL_ATTR ==
    <<"#", "[", "m", "a", "c", "r", "o", "_", "u", "s", "e", "]", LF, "e", "x", "t", "e",
      "r", "n", " ", "c", "r", "a", "t", "e", " ", "c", ";">>

DECL_AS ==
    <<"e", "x", "t", "e", "r", "n", " ", "c", "r", "a", "t", "e", " ", "a", " ", "a", "s",
      " ", "b", ";">>

INNER_ATTR ==
    <<"#", "!", "[", "f", "e", "a", "t", "u", "r", "e", "(", "x", ")", "]">>

EXPR == <<"e", "x", " ", "+", " ", "1">>

PRINTS == <<"p", "r", "i", "n", "t", "!", "(", "U+201C", "x", "U+201D", ")">>

WITH_MAIN == <<"f", "n", " ", "m", "a", "i", "n", "(", ")", " ", "{", "}">>

\* A snippet that starts with a prefix of the shell commands: ".5".
STARTS_AS_CMD == <<".", "5">>

SnippetPieces ==
    { DECL_A, DECL_B, DECL_ATTR, DECL_AS, INNER_ATTR, EXPR, PRINTS, WITH_MAIN }

Concat(parts) == Join(parts, <<>>)

Snippets == { Concat(ps) : ps \in SeqsUpTo(SnippetPieces, MaxPieces) }

Fill(c, n) == [k \in 1..n |-> c]

\* The column budget of generate_result_from_response: MAX_LINES * 72.
Budget == 3 * 72

\* Outputs around the column budget: narrow characters followed by wide ones, on
\* one line; wide characters alone; three lines of which the third ends around the
\* budget; four lines of which the last is long. The first has white space around.
WideOutputs ==
    { Fill("x", n) \o Fill("U+4E2D", w) :
        n \in (Budget - MaxOver)..(Budget + MaxOver), w \in 0..MaxOver }
    \cup { Fill("U+4E2D", n) : n \in (Budget \div 2)..(Budget \div 2 + MaxOver) }
    \cup { <<"a", LF, "b", LF>> \o Fill("x", n) \o <<LF, "c", "c">> :
             n \in (Budget - 5 - MaxOver)..(Budget - 5 + MaxOver) }
    \cup { <<"a", LF, "b", LF, "c", LF>> \o Fill("x", Budget),
           <<" ", LF>> \o Fill("x", Budget + 1) \o <<" ", LF>> }

WideResponses == { [success |-> TRUE, stdout |-> o, stderr |-> <<>>] : o \in WideOutputs }

\* Lines of the standard error of a build that failed: empty and blank lines,
\* progress lines of cargo (indented as cargo prints them), a note with a
\* character the formatter escapes, a warning, an error.
ErrLines ==
    { <<>>,
      <<" ">>,
      <<" ", " ", "C", "o", "m", "p", "i", "l", "i", "n", "g", " ", "a">>,
      <<"F", "i", "n", "i", "s", "h", "e", "d">>,
      <<" ", "R", "u", "n", "n", "i", "n", "g", " ", "a">>,
      <<"n", "o", "t", "e", "<">>,
      <<"w", "a", "r", "n", "i", "n", "g", ":", " ", "w", " ">>,
      <<" ", "e", "r", "r", "o", "r", ":", " ", "x">> }

\* Failed responses whose stderr is up to MaxErrLines of these lines.
FailedResponses ==
    { [success |-> FALSE, stdout |-> <<>>, stderr |-> Join(ls, <<LF>>)] :
        ls \in SeqsUpTo(ErrLines, MaxErrLines) }

\* One update: a snippet to evaluate, or one of the updates of the ingestion-loop
\* specification, with the service answering briefly; or an expression whose
\* output is around the column budget, or whose build fails; or a snippet that
\* starts like a shell command.
InitEval ==
    /\ \/ /\ \/ \E c \in Snippets : pending = <<Upd("NewMessage", ME, EVAL \o c)>>
             \/ \E u \in CoreFeed : pending = <<u>>
          /\ service = Responses
       \/ /\ pending = <<Upd("NewMessage", ME, EVAL \o EXPR)>>
          /\ \/ service = WideResponses
             \/ \E r \in FailedResponses : service = {r}
       \/ /\ pending = <<Upd("NewMessage", ME, EVAL \o STARTS_AS_CMD)>>
          /\ service = Responses
    /\ host \in CoreHosts
    /\ loop = "running"
    /\ tasks = <<>>
    /\ interrupted = FALSE

SpecEval == InitEval /\ [][Next]_vars

\* ------------------------------------------------------------------ claims

\* An update of the bot's own identity that carries a message.
FromMe(u) == u.kind \in {"NewMessage", "MessageEdited"} /\ u.sender = "me"

HasProgram(cmd) == \E k \in 1..Len(cmd) : cmd[k] \notin {" ", "\n", "\t", "\r"}

\* The handler the router is to choose, as the claim lists them.
C1_Expected(text) ==
    IF text = <<"+">> THEN "handle_repeat"
    ELSE IF StartsWith(text, <<"r", "#">>) THEN "handle_eval"
    ELSE IF \E p \in {",", "U+FF0C", ".", "U+3002"} : StartsWith(text, <<p>>) THEN "handle_cmd"
    ELSE IF StartsWith(text, <<"h", "#">>) THEN "handle_help"
    ELSE IF StartsWith(text, <<"s", "#">>) THEN "handle_status"
    ELSE "none"

\* C1: for a message of the bot's own identity, update calls at most one handler,
\* the first that matches in the order repeat ("+" exactly), eval ("r#"), shell
\* command (",", "，", ".", "。"; the first matching prefix is the one stripped),
\* help ("h#"), status ("s#"); a text matching none calls no handler and update
\* returns Ok without touching the message.
C1_FirstMatchDispatch ==
    \A i \in DOMAIN tasks :
        LET t == tasks[i]
        IN  FromMe(t.upd) /\ t.pc # "update" =>
              /\ t.handler = C1_Expected(t.upd.text)
              /\ t.handlers <= 1
              /\ t.pc \in {"ok", "err"} /\ t.handler # "none" => t.handlers = 1
              /\ t.handler = "none" =>
                    t.pc = "ok" /\ t.handlers = 0 /\ t.edits = 0 /\ t.msg = TextMsg(t.upd.text)
              /\ t.handler = "handle_cmd" =>
                    \E p \in {",", "U+FF0C", ".", "U+3002"} :
                        /\ Head(t.upd.text) = p
                        /\ t.arg = TrimStartMatches(t.upd.text, <<p>>)

C1_Witness ==
    \E i \in DOMAIN tasks :
        /\ FromMe(tasks[i].upd)
        /\ tasks[i].upd.text = <<"U+3002", "x">>
        /\ tasks[i].handler = "handle_cmd"
        /\ tasks[i].handlers = 1
        /\ tasks[i].pc = "ok"

\* C2: an update whose sender is absent or is not the bot's own identity, and an
\* update of any kind other than a new or an edited message, calls no handler:
\* update returns Ok at once, with no edit, no deletion, no spawn and no remote call.
C2_OnlyOwnMessages ==
    \A i \in DOMAIN tasks :
        LET t == tasks[i]
        IN  ~FromMe(t.upd) =>
              /\ t.pc \in {"update", "ok"}
              /\ t.handler = "none"
              /\ t.handlers = 0 /\ t.edits = 0 /\ t.spawns = 0 /\ t.formats = 0
              /\ t.msg = TextMsg(t.upd.text) /\ ~t.deleted

C2_Witness ==
    /\ Len(tasks) = 1
    /\ tasks[1].upd = Upd("NewMessage", "other", <<",", "x">>)
    /\ tasks[1].pc = "ok"

\* Whether the lines of s are those of a and of b, each in its order.
RECURSIVE IsInterleaving(_, _, _)
IsInterleaving(s, a, b) ==
    IF s = <<>> THEN a = <<>> /\ b = <<>>
    ELSE \/ a # <<>> /\ Head(s) = Head(a) /\ IsInterleaving(Tail(s), Tail(a), b)
         \/ b # <<>> /\ Head(s) = Head(b) /\ IsInterleaving(Tail(s), a, Tail(b))

\* A task whose handle_cmd spawned its program and returned Ok.
CmdReturnedOk(t) == t.handler = "handle_cmd" /\ t.spawns > 0 /\ host.found /\ t.pc = "ok"

\* C3: when handle_cmd returns Ok after a spawn, both streams have signalled their
\* end, every line of both has been read into the buffer (after the header, in
\* stream order), and the message shows the render of that whole buffer: the loop
\* never returns earlier, and the last render comes after the last line.
C3_ReturnsAfterFinalRender ==
    \A i \in DOMAIN tasks :
        LET t == tasks[i]
        IN  CmdReturnedOk(t) =>
              /\ t.stdout_done /\ t.stderr_done
              /\ t.nout = Len(host.out) /\ t.nerr = Len(host.err)
              /\ t.ticks >= 1
              /\ StartsWith(t.resp, PROMPT \o t.arg \o <<LF>>)
              /\ IsInterleaving(Lines(Drop(t.resp, Len(PROMPT \o t.arg \o <<LF>>))),
                                host.out, host.err)
              /\ t.sent = t.resp
              /\ t.msg = PreMsg(t.resp, "StdOut")

\* Both streams had lines, and the only tick was the one after both had closed.
C3_Witness ==
    \E i \in DOMAIN tasks :
        /\ CmdReturnedOk(tasks[i])
        /\ host.err # <<>> /\ host.out # <<>>
        /\ tasks[i].ticks = 1

C4_DoneMarker == <<"D", "o", "n", "e", ".">>

\* C4: after both streams have closed the runner awaits the exit status, appends
\* a terminal marker line and renders once more: the final message ends with
\* "Done." under the tag "StdOut", or carries the failure under the tag "StdErr".
C4_FinalStatusRender ==
    \A i \in DOMAIN tasks :
        LET t == tasks[i]
        IN  CmdReturnedOk(t) =>
              \/ EndsWith(t.msg.text, C4_DoneMarker) /\ t.msg.entities[1].language = "StdOut"
              \/ t.msg.entities[1].language = "StdErr"

\* A task whose handle_cmd found a program in its command and failed to spawn it.
SpawnFailed(t) ==
    t.handler = "handle_cmd" /\ HasProgram(t.arg) /\ ~host.found /\ t.pc \in {"ok", "err"}

\* C5: when the spawn fails handle_cmd makes exactly one edit, under the tag
\* "StdErr", of the header line, the failure marker and the spawn error, and
\* returns: no stream is read, no tick happens, and the message shows that text
\* unless the edit itself failed.
C5_SpawnFailureReport ==
    \A i \in DOMAIN tasks :
        LET t == tasks[i]
        IN  SpawnFailed(t) =>
              /\ t.edits = 1 /\ t.ticks = 0 /\ t.reads = 0
              /\ t.nout = 0 /\ t.nerr = 0 /\ ~t.stdout_done /\ ~t.stderr_done
              /\ t.pc = "ok" =>
                    /\ t.msg.text = Trim(PROMPT \o t.arg \o <<LF>> \o FAIL_MARKER \o SPAWN_ERROR)
                    /\ t.msg.entities =
                         <<[offset |-> 0, length |-> Len(t.msg.text), language |-> "StdErr"]>>
              /\ t.pc = "err" => t.msg = TextMsg(t.upd.text)

C5_Witness ==
    \E i \in DOMAIN tasks :
        /\ SpawnFailed(tasks[i])
        /\ tasks[i].pc = "ok"
        /\ tasks[i].spawns = 1
        /\ EndsWith(tasks[i].msg.text, SPAWN_ERROR)

\* C6: a shell command without a program (nothing but white space after the
\* prefix) never spawns and never enters the render loop; handle_cmd makes one
\* edit, to "No command given", and returns.
C6_NoCommandGiven ==
    \A i \in DOMAIN tasks :
        LET t == tasks[i]
        IN  t.handler = "handle_cmd" /\ ~HasProgram(t.arg) =>
              /\ t.spawns = 0 /\ t.ticks = 0 /\ t.reads = 0
              /\ t.pc \in {"handle_cmd", "ok", "err"}
              /\ t.pc # "handle_cmd" => t.edits = 1
              /\ t.pc = "ok" => t.msg = TextMsg(NO_COMMAND_GIVEN)
              /\ t.pc = "err" => t.msg = TextMsg(t.upd.text)

C6_Witness ==
    \E i \in DOMAIN tasks :
        /\ host.found
        /\ tasks[i].handler = "handle_cmd"
        /\ tasks[i].arg = <<" ">>
        /\ tasks[i].pc = "ok"
        /\ tasks[i].msg.text = NO_COMMAND_GIVEN

\* C7: when the remote call fails the formatter is not invoked and the error text
\* replaces the placeholder in the message.
C7_RemoteErrorSurfaced ==
    \A i \in DOMAIN tasks :
        LET t == tasks[i]
        IN  t.handler = "handle_eval" /\ t.error = "remote" =>
              /\ t.formats = 0
              /\ t.msg.text # EVAL_PLACEHOLDER

\* A task of handle_cmd whose message shows a render of a tick: the last edit f
\* sent was for the buffer `sent`, and it did not fail.
ShowsRender(t) == t.handler = "handle_cmd" /\ t.ticks > 0 /\ t.pc \in {"select", "ok"}

Overflows(t) == Len(Lines(Trim(t.sent))) > 30

\* C8: the render of a buffer of more than MAX_LINES lines has MAX_LINES + 1
\* lines: the hint and the lines kept.
C8_WindowLineCount ==
    \A i \in DOMAIN tasks :
        LET t == tasks[i]
        IN  ShowsRender(t) /\ Overflows(t) => Len(Lines(t.msg.text)) = 30 + 1

\* "以上行数被杜叔叔吃掉了！"
C9_HintLine ==
    <<"U+4EE5", "U+4E0A", "U+884C", "U+6570", "U+88AB", "U+675C", "U+53D4", "U+53D4",
      "U+5403", "U+6389", "U+4E86", "U+FF01">>

LastLines(ls, n) == SubSeq(ls, Len(ls) - n + 1, Len(ls))

\* C9: the render of a buffer of more than 30 lines starts with the hint line and
\* ends with the last 30 lines of the trimmed buffer, in their order; the render
\* of a buffer of at most 30 lines is the trimmed buffer.
C9_WindowKeepsTail ==
    \A i \in DOMAIN tasks :
        LET t == tasks[i]
        IN  ShowsRender(t) =>
              IF Overflows(t)
              THEN /\ StartsWith(t.msg.text, C9_HintLine \o <<LF>>)
                   /\ LastLines(Lines(t.msg.text), 30) = LastLines(Lines(Trim(t.sent)), 30)
              ELSE /\ t.msg.text = Trim(t.sent)
                   /\ ~StartsWith(t.msg.text, C9_HintLine)

C9_Witness ==
    \E i \in DOMAIN tasks :
        /\ ShowsRender(tasks[i])
        /\ Overflows(tasks[i])
        /\ tasks[i].pc = "ok"

\* C10: a handler that fails ends its own task only: the step that fails leaves
\* the ingestion loop running as it was, with the updates still to fetch, and
\* leaves every other task as it was; and a failed task stays failed without
\* keeping run from spawning tasks for later updates.
C10_FailureIsolated ==
    [][ \A i \in DOMAIN tasks :
          tasks[i].pc # "err" /\ tasks'[i].pc = "err" =>
            /\ loop' = loop
            /\ pending' = pending
            /\ DOMAIN tasks' = DOMAIN tasks
            /\ \A j \in DOMAIN tasks \ {i} : tasks'[j] = tasks[j] ]_vars

\* The first task failed; the loop went on, fetched the next update and its
\* handler ran to its end.
C10_Witness ==
    /\ Len(tasks) = 2
    /\ tasks[1].pc = "err" /\ tasks[1].handler = "handle_cmd" /\ tasks[1].error = "read"
    /\ tasks[2].pc = "ok" /\ tasks[2].handler = "handle_eval"
    /\ loop = "running"

\* C11: once the process has been sent an interrupt signal the ingestion loop
\* fetches and dispatches no further update, and exits; the step in which it exits
\* leaves every task that was dispatched before as it is, free to run on.
C11_InterruptStopsIngestion ==
    [][ /\ interrupted => ~(loop # "fetched" /\ loop' = "fetched")
        /\ interrupted /\ loop = "running" => loop' = "running" \/ loop' = "notified"
        /\ loop # "exited" /\ loop' = "exited" => tasks' = tasks ]_vars

\* Declarations of external crates, and the regions they make with blanks.
C12_Decls == { DECL_A, DECL_B, DECL_ATTR }

C12_Regions ==
    { Concat(ps) : ps \in SeqsUpTo(C12_Decls, MaxPieces - 1) \ { <<>> } }

C13_UnitOpen ==
    <<"#", "!", "[", "a", "l", "l", "o", "w", "(", "w", "a", "r", "n", "i", "n", "g", "s",
      ")", "]", LF>>

C13_MainOpen ==
    <<"f", "n", " ", "m", "a", "i", "n", "(", ")", " ", "-", ">", " ", "R", "e", "s", "u",
      "l", "t", "<", "(", ")", ",", " ", "B", "o", "x", "<", "d", "y", "n", " ", "s", "t",
      "d", ":", ":", "e", "r", "r", "o", "r", ":", ":", "E", "r", "r", "o", "r", ">", ">",
      " ", "{", LF, " ", " ", " ", " ">>

C13_MainClose ==
    <<LF, " ", " ", " ", " ", "O", "k", "(", "(", ")", ")", LF, "}", LF>>

C13_DebugOpen ==
    <<"p", "r", "i", "n", "t", "l", "n", "!", "(", "\"", "{", ":", "?", "}", "\"", ",",
      " ", "{">>

C13_DebugClose == <<"}", ")", ";">>

C13_Prints(body) ==
    \/ Contains(body, <<"p", "r", "i", "n", "t", "l", "n", "!">>)
    \/ Contains(body, <<"p", "r", "i", "n", "t", "!">>)

\* C13: a snippet with "fn main()" is sent as it is; else, with (header, body) the
\* result of the header extraction, the unit sent is the header in its place and an
\* entry point that holds the body alone as a bare block if the body prints, and a
\* debug-formatting print of the body as an expression if it does not.
C13_AutoWrap ==
    \A i \in DOMAIN tasks :
        LET t    == tasks[i]
            code == normalize_unicode_chars(t.arg)
            h    == t.split[1]
            b    == t.split[2]
        IN  t.request # <<>> =>
              IF Contains(code, <<"f", "n", " ", "m", "a", "i", "n", "(", ")">>)
              THEN t.request = code
              ELSE IF C13_Prints(b)
              THEN t.request = C13_UnitOpen \o h \o <<LF>> \o PRELUDE \o <<LF>>
                                 \o C13_MainOpen \o <<"{", LF>> \o b \o <<LF, "}", ";">>
                                 \o C13_MainClose
              ELSE \E inner \in { C13_DebugOpen \o <<LF, " ", " ", " ", " ", " ", " ", " ", " ">>
                                    \o b \o <<LF, " ", " ", " ", " ">> \o C13_DebugClose } :
                      t.request = C13_UnitOpen \o h \o <<LF>> \o PRELUDE \o <<LF>>
                                    \o C13_MainOpen \o inner \o <<LF>> \o C13_MainClose

\* The columns of the characters lo..hi of text: a wide character takes 2.
RECURSIVE C14_Columns(_, _, _)
C14_Columns(text, lo, hi) ==
    IF lo > hi THEN 0
    ELSE IF lo = hi THEN (IF text[lo] = "U+4E2D" THEN 2 ELSE 1)
    ELSE C14_Columns(text, lo, (lo + hi) \div 2) + C14_Columns(text, (lo + hi) \div 2 + 1, hi)

C14_DisplayWidth(text) == C14_Columns(text, 1, Len(text))

\* C14: when the trimmed stdout of a successful response is wider than 216
\* columns (a wide character counting 2), the truncated output ends with "..." and
\* is at most 216 + 2 columns wide.
C14_WidthBoundedTruncation ==
    \A i \in DOMAIN tasks :
        LET t == tasks[i]
        IN  t.formats > 0 /\ t.response.success
            /\ C14_DisplayWidth(Trim(t.response.stdout)) > 216 =>
              /\ EndsWith(t.truncated, <<".", ".", ".">>)
              /\ C14_DisplayWidth(t.truncated) <= 216 + 2

\* The output is cut at its third line feed, in column 216: 215 columns and the marker.
C14_Witness ==
    \E i \in DOMAIN tasks :
        /\ tasks[i].formats > 0 /\ tasks[i].response.success
        /\ C14_DisplayWidth(Trim(tasks[i].response.stdout)) > 216
        /\ C14_DisplayWidth(tasks[i].truncated) = 216 + 2
        /\ tasks[i].pc = "ok"

C16_PushFailureHandling ==
    [][ \A i \in DOMAIN tasks :
          LET t == tasks[i]
              u == tasks'[i]
          IN  /\ t.handler = "handle_cmd" /\ t.pc = "push" /\ u.pc # "push" =>
                   \/ /\ u.edit_result = "FAILED"
                      /\ u.pc = "err" /\ u.error = "edit"
                      /\ u.msg = t.msg /\ u.resp = t.resp
                   \/ /\ u.edit_result \in {"OK", "MESSAGE_NOT_MODIFIED"}
                      /\ u.pc = IF t.stdout_done /\ t.stderr_done THEN "ok" ELSE "select"
                      /\ u.error = "none"
                      /\ u.msg = t.payload /\ u.resp = t.resp
              /\ t.pc = "err" => u = t ]_vars

\* The edit of the second tick was refused as unchanged, and the loop waits again.
C16_Witness ==
    \E i \in DOMAIN tasks :
        /\ tasks[i].handler = "handle_cmd"
        /\ tasks[i].edit_result = "MESSAGE_NOT_MODIFIED"
        /\ tasks[i].ticks = 2
        /\ tasks[i].pc = "select"

\* C17: an error of next_line on either stream ends the task with that error at
\* once: the buffer and the message stay as they are, the message showing the last
\* render if there was one, and nothing of the task changes afterwards.
C17_ReadErrorAborts ==
    [][ \A i \in DOMAIN tasks :
          LET t == tasks[i]
              u == tasks'[i]
          IN  /\ t.error = "read" => t.pc = "err" /\ u = t
              /\ t.error # "read" /\ u.error = "read" =>
                   /\ t.pc = "select" /\ u.pc = "err"
                   /\ u.resp = t.resp /\ u.msg = t.msg
                   /\ u.ticks = t.ticks /\ u.edits = t.edits
                   /\ t.ticks > 0 => u.msg = t.payload
                   /\ t.ticks = 0 => u.msg = TextMsg(t.upd.text) ]_vars

\* A read failed after a line had been read and rendered.
C17_Witness ==
    \E i \in DOMAIN tasks :
        /\ tasks[i].pc = "err" /\ tasks[i].error = "read"
        /\ tasks[i].nout > 0 /\ tasks[i].ticks > 0
        /\ tasks[i].sent = tasks[i].resp
        /\ tasks[i].msg = tasks[i].payload

\* C18: once the program is spawned the buffer starts with the header line
\* ("❯ ", the command, a line feed); every step leaves what it held as a prefix of
\* what it holds; and the buffer each render is made of is a prefix of the buffer
\* of the next render and of the current buffer.
C18_BufferAppendOnly ==
    [][ \A i \in DOMAIN tasks :
          LET t == tasks[i]
              u == tasks'[i]
          IN  u.handler = "handle_cmd" /\ u.spawns > 0 /\ host.found =>
                /\ StartsWith(u.resp, <<"U+276F", " ">> \o u.arg \o <<LF>>)
                /\ StartsWith(u.resp, t.resp)
                /\ StartsWith(u.sent, t.sent)
                /\ StartsWith(u.resp, u.sent)
                /\ u.ticks > 0 => StartsWith(u.sent, <<"U+276F", " ">> \o u.arg \o <<LF>>) ]_vars

\* Two renders, the second of a longer buffer than the header alone.
C18_Witness ==
    \E i \in DOMAIN tasks :
        /\ tasks[i].handler = "handle_cmd" /\ tasks[i].pc = "ok"
        /\ tasks[i].ticks = 2
        /\ tasks[i].nout > 0 /\ tasks[i].nerr > 0
        /\ tasks[i].sent = tasks[i].resp

\* C19: a line read from either stream is appended to the end of the buffer, with
\* a line feed, in the step that reads it, and no other step changes the buffer:
\* at every point the buffer after its header is the lines read so far from the two
\* streams, those of each stream in their order.
C19_ArrivalOrder ==
    [][ \A i \in DOMAIN tasks :
          LET t      == tasks[i]
              u      == tasks'[i]
              body   == Drop(u.resp, Len(<<"U+276F", " ">> \o u.arg \o <<LF>>))
              pieces == SplitFrom(body, <<>>)
          IN  t.pc \in {"select", "push"} =>
                /\ u.nout = t.nout + 1 =>
                     u.nerr = t.nerr /\ u.resp = t.resp \o host.out[u.nout] \o <<LF>>
                /\ u.nerr = t.nerr + 1 =>
                     u.nout = t.nout /\ u.resp = t.resp \o host.err[u.nerr] \o <<LF>>
                /\ u.nout = t.nout /\ u.nerr = t.nerr => u.resp = t.resp
                /\ u.nout \in {t.nout, t.nout + 1} /\ u.nerr \in {t.nerr, t.nerr + 1}
                /\ pieces[Len(pieces)] = <<>>
                /\ IsInterleaving(SubSeq(pieces, 1, Len(pieces) - 1),
                                  SubSeq(host.out, 1, u.nout), SubSeq(host.err, 1, u.nerr)) ]_vars

\* The line of standard error was read between the two lines of standard output.
C19_Witness ==
    \E i \in DOMAIN tasks :
        /\ tasks[i].handler = "handle_cmd"
        /\ host.out = << <<"h", "i">>, <<>> >> /\ host.err = << <<"e">> >>
        /\ tasks[i].resp = <<"U+276F", " ">> \o tasks[i].arg \o <<LF, "h", "i", LF, "e", LF, LF>>
        /\ tasks[i].pc = "ok"

\* C20: a render loop ends: it returns Ok, unless it returns the error of a read
\* that failed or of an edit that failed otherwise than as unchanged; a stream
\* that has signalled its end is not read again; a tick pushes the buffer as it
\* stands; and after a push the loop leaves only when both streams are done, and
\* waits in select again otherwise.
C20_LoopTerminates ==
    /\ (tasks # <<>> /\ tasks[1].pc = "select")
          ~> (tasks # <<>> /\ tasks[1].pc \in {"ok", "err"})
    /\ [][ \A i \in DOMAIN tasks :
            LET t == tasks[i]
                u == tasks'[i]
            IN  /\ t.pc \in {"select", "push"} /\ u.pc = "err" =>
                     \/ t.pc = "select" /\ u.error = "read"
                     \/ t.pc = "push" /\ u.error = "edit" /\ u.edit_result = "FAILED"
                /\ t.stdout_done => u.stdout_done /\ u.nout = t.nout
                /\ t.stderr_done => u.stderr_done /\ u.nerr = t.nerr
                /\ t.pc = "select" /\ u.pc = "push" => u.sent = t.resp /\ u.resp = t.resp
                /\ t.pc = "push" /\ u.pc = "ok" => t.stdout_done /\ t.stderr_done
                /\ t.pc = "push" /\ u.pc \notin {"push", "err"}
                     /\ ~(t.stdout_done /\ t.stderr_done) => u.pc = "select" ]_vars

\* The loop returned Ok after ticks made while a stream was still open.
C20_Witness ==
    \E i \in DOMAIN tasks :
        /\ tasks[i].handler = "handle_cmd" /\ tasks[i].pc = "ok"
        /\ tasks[i].ticks = 2 /\ tasks[i].nout = 2 /\ tasks[i].nerr = 1
        /\ tasks[i].edit_result = "OK"

\* A task whose handler has not returned.
C21_InFlight(t) == t.pc \notin {"ok", "err"}

\* C21: whenever the loop waits for an update and one is there, it can fetch it,
\* whatever the tasks of earlier updates are doing; a fetch starts only from the
\* loop waiting, each fetch is followed by one dispatch before the next, and the
\* steps of the loop leave the tasks spawned so far as they are.
C21_LoopNeverWaits ==
    /\ [](loop = "running" /\ pending # <<>> => ENABLED next_update)
    /\ [][ /\ loop' = "fetched" /\ loop # "fetched" => loop = "running" /\ pending' = pending
           /\ pending' # pending =>
                /\ loop = "fetched" /\ loop' = "running"
                /\ pending' = Tail(pending)
                /\ Len(tasks') \in {Len(tasks), Len(tasks) + 1}
           /\ loop' # loop => \A i \in DOMAIN tasks : tasks'[i] = tasks[i] ]_vars

\* The second update has been fetched while the shell command of the first is
\* still being read, and both handlers are in flight.
C21_Witness ==
    /\ Len(tasks) = 2
    /\ tasks[1].handler = "handle_cmd" /\ tasks[1].pc = "select" /\ tasks[1].ticks > 0
    /\ C21_InFlight(tasks[2]) /\ tasks[2].handler = "handle_eval"
    /\ loop = "running"

\* The lines of a text: what stands between its line feeds.
C22_Lines(text) ==
    LET cuts   == {0, Len(text) + 1} \cup {k \in 1..Len(text) : text[k] = LF}
        nth(j) == CHOOSE c \in cuts : Cardinality({d \in cuts : d < c}) = j
    IN  [j \in 1..(Cardinality(cuts) - 1) |-> SubSeq(text, nth(j - 1) + 1, nth(j) - 1)]

C22_Word(line, word) == Len(line) >= Len(word) /\ SubSeq(line, 1, Len(word)) = word

\* A blank line, or a line of build progress.
C22_Noise(line) ==
    \/ line = <<>>
    \/ \E word \in { <<"C", "o", "m", "p", "i", "l", "i", "n", "g">>,
                      <<"F", "i", "n", "i", "s", "h", "e", "d">>,
                      <<"R", "u", "n", "n", "i", "n", "g">> } : C22_Word(line, word)

C22_First(ks) == CHOOSE k \in ks : \A j \in ks : k <= j

\* The line the claim selects from stderr, trimmed: <<>> when there is none.
C22_Selected(stderr) ==
    LET lines  == [k \in DOMAIN C22_Lines(stderr) |-> Trim(C22_Lines(stderr)[k])]
        errors == {k \in DOMAIN lines : C22_Word(lines[k], <<"e", "r", "r", "o", "r">>)}
        others == {k \in DOMAIN lines : ~C22_Noise(lines[k])}
    IN  IF errors # {} THEN lines[C22_First(errors)]
        ELSE IF others # {} THEN lines[C22_First(others)]
        ELSE <<>>

\* C22: the result of a failed response is the first line of stderr that starts
\* with "error" if there is one, else the first line that is neither blank nor
\* starts with "Compiling", "Finished" or "Running" (lines taken trimmed, the line
\* shown with its HTML characters escaped), and "(nothing??)" when there is none.
C22_FailureLine ==
    \A i \in DOMAIN tasks :
        tasks[i].formats > 0 /\ ~tasks[i].response.success =>
            tasks[i].result =
                IF C22_Selected(tasks[i].response.stderr) = <<>> THEN NOTHING
                ELSE encode_minimal(C22_Selected(tasks[i].response.stderr))

\* A warning stands before the error, and the error is what is shown.
C22_Witness ==
    \E i \in DOMAIN tasks :
        /\ tasks[i].formats > 0 /\ ~tasks[i].response.success
        /\ tasks[i].response.stderr =
              <<"w", "a", "r", "n", "i", "n", "g", ":", " ", "w", " ", LF,
                " ", "e", "r", "r", "o", "r", ":", " ", "x">>
        /\ tasks[i].result = <<"e", "r", "r", "o", "r", ":", " ", "x">>
        /\ tasks[i].pc = "ok"

\* C23: while the edit of a tick is awaited the buffer is the one the tick took,
\* the message being sent is its window, and no stream is read or found ended;
\* the edit that succeeds shows that window.
C23_NoOverlap ==
    /\ [](\A i \in DOMAIN tasks :
             tasks[i].pc = "push" =>
               /\ tasks[i].resp = tasks[i].sent
               /\ tasks[i].payload = PreMsg(tasks[i].resp, "StdOut")
               /\ ~ENABLED read_stdout(i) /\ ~ENABLED read_stderr(i))
    /\ [][ \A i \in DOMAIN tasks :
            LET t == tasks[i]
                u == tasks'[i]
            IN  /\ t.pc = "select" /\ u.pc = "push" =>
                     u.resp = t.resp /\ u.payload.text = RenderText(t.resp)
                /\ t.pc = "push" =>
                     /\ u.resp = t.resp /\ u.sent = t.sent
                     /\ u.nout = t.nout /\ u.nerr = t.nerr /\ u.reads = t.reads
                     /\ u.stdout_done = t.stdout_done /\ u.stderr_done = t.stderr_done
                     /\ u.edit_result = "OK" /\ u.pc # "push" => u.msg = PreMsg(t.resp, "StdOut") ]_vars

\* An edit is awaited while a line of the program is there to read.
C23_Witness ==
    \E i \in DOMAIN tasks :
        /\ tasks[i].pc = "push"
        /\ tasks[i].reads > 0
        /\ ~tasks[i].stdout_done /\ tasks[i].nout < Len(host.out)

\* C24: the text a handler has put into the message is no command: update, given
\* the message as edited, of the bot's own identity, calls no handler.
C24_NoSelfDispatch ==
    \A i \in DOMAIN tasks :
        tasks[i].msg # TextMsg(tasks[i].upd.text) =>
            Dispatch(Upd("MessageEdited", ME, tasks[i].msg.text)).handler = "none"

====
